---- MODULE Spec2Model ----
(***************************************************************************)
(* Model of comonad_rust (src/src/lib.rs): the CoMonad<T, V> container and *)
(* its operations extract / fmap / duplicate / extend, each in its free    *)
(* function form and its method form, the Option pipeline                  *)
(* vec.get(4).and_then(checked_add(586)) of monad(), and the two drivers   *)
(* monad() and comonad() as the test harness runs them.                    *)
(*                                                                         *)
(* Closures passed to fmap / extend / and_then are TLA+ function values    *)
(* and are applied as func[x].  The f64 values the comonad driver touches  *)
(* (14., 15., 16.) are small integers, exactly representable, and x + 1.   *)
(* is exact on them, so they are modelled as integers.                     *)
(***************************************************************************)
EXTENDS Integers, Sequences, FiniteSets, TLC

(* ------------------------------ bounds -------------------------------- *)

\* Container values of the law harness range over 0..MaxVal.
MaxVal == 1
\* Container environments of the law harness range over 0..MaxEnv.
MaxEnv == 1
\* How many values of RandPool the random generator of monad() may return.
NumRand == 2
\* Width of the bands of u16 values next to 0 and next to u16::MAX that the
\* safe-add harness draws its inputs from.
Edge == 1

(* ------------------------- program constants -------------------------- *)

\* u16::MAX
U16_MAX == 65535
\* (0..=9): the number of elements monad() generates
VecLen == 10
\* vec.get(4)
Index == 4
\* checked_add(586)
Delta == 586
\* static mut HEIGHT: f64 = 15.  Nothing in the program writes it, so the
\* unsafe read in comonad() always sees 15.
HEIGHT == 15
\* value: 14. in comonad()
Radius == 14

U16 == 0..U16_MAX

(* ------------------------------ Option -------------------------------- *)

None == [tag |-> "None"]

Some(v) == [tag |-> "Some", val |-> v]

\* Get reading the element after the one asked for.
Get_next(s, i) == IF i + 1 < Len(s) THEN Some(s[i + 2]) ELSE None

\* slice::get: Some(element) for an index inside the vector, None outside;
\* the index is zero-based, TLA+ sequences are one-based.
Get(s, i) == IF i < Len(s) THEN Some(s[i + 1]) ELSE None

\* checked_add as a wrapping add: the sum modulo 2^16, always present.
checked_add_wrapping(a, b) == Some((a + b) % (U16_MAX + 1))

\* u16::checked_add: None when the exact sum does not fit 16 bits.
checked_add(a, b) == IF a + b > U16_MAX THEN None ELSE Some(a + b)

\* Option::and_then: None stays None, Some(v) becomes func(v).
and_then(opt, func) == IF opt = None THEN None ELSE func[opt.val]

\* vec.get(4).and_then(|val| (*val).checked_add(586)), for any optional
\* value m and any delta d.
safe_add(m, d) == and_then(m, [v \in U16 |-> checked_add(v, d)])

(* ----------------------------- CoMonad -------------------------------- *)

\* struct CoMonad<T, V> { value, env }
CoMonad(v, e) == [value |-> v, env |-> e]

\* fn add_one(x: f64) -> f64
add_one(x) == x + 1

\* add_one_pure reading the environment instead of the value.
add_one_pure_env(inp) == inp.env + 1

\* let add_one_pure = |inp: CoMonad<f64, f64>| inp.value + 1.
add_one_pure(inp) == inp.value + 1

\* fn extract(input: &CoMonad<T, V>) -> T
extract(input) == input.value

\* fmap storing the old value as the environment.
fmap_env_value(func, input) == [value |-> func[extract(input)], env |-> extract(input)]

\* fn fmap(func)(input)
fmap(func, input) == [value |-> func[extract(input)], env |-> input.env]

\* duplicate wrapping the container with its two fields exchanged.
duplicate_swapped(input) ==
    [value |-> [value |-> input.env, env |-> input.value], env |-> input.env]

\* duplicate taking the outer environment from the value.
duplicate_env_value(input) == [value |-> input, env |-> input.value]

\* fn duplicate(input)
duplicate(input) == [value |-> input, env |-> input.env]

\* fn extend(func)(input)
extend(func, input) == fmap(func, duplicate(input))

\* CoMonad::extract(&self)
CoMonad_extract(self) == self.value

\* CoMonad::fmap storing the old value as the environment.
CoMonad_fmap_env_value(self, func) ==
    [value |-> func[CoMonad_extract(self)], env |-> CoMonad_extract(self)]

\* CoMonad::fmap(&self, func)
CoMonad_fmap(self, func) == [value |-> func[CoMonad_extract(self)], env |-> self.env]

\* CoMonad::duplicate wrapping the container with its two fields exchanged.
CoMonad_duplicate_swapped(self) ==
    [value |-> [value |-> self.env, env |-> self.value], env |-> self.env]

\* CoMonad::duplicate taking the outer environment from the value.
CoMonad_duplicate_env_value(self) == [value |-> self, env |-> self.value]

\* CoMonad::duplicate whose inner copy takes its environment from the value.
CoMonad_duplicate_inner_env(self) ==
    [value |-> [value |-> self.value, env |-> self.value], env |-> self.env]

\* CoMonad::duplicate(&self)
CoMonad_duplicate(self) == [value |-> self, env |-> self.env]

\* CoMonad::extend(&self, func)
CoMonad_extend(self, func) == CoMonad_fmap(CoMonad_duplicate(self), func)

(* ------------------------------- state -------------------------------- *)

VARIABLES
    \* monad(): program counter, the generated vector, the Option computed
    \* from it, what println! was given
    pc_monad, vec, val, out_monad,
    \* comonad(): program counter, its locals, what println! was given
    pc_comonad, comonad, added_one, res_0, res_1, out_comonad,
    \* law harness: the input container, the two closures and their kind,
    \* and the operations applied so far with their results
    c, f, g, kind, step, op1, r1, op2, r2,
    \* safe-add harness: optional input, delta, result
    sa_m, sa_d, sa_done, sa_out

monad_vars == <<pc_monad, vec, val, out_monad>>

comonad_vars == <<pc_comonad, comonad, added_one, res_0, res_1, out_comonad>>

law_vars == <<c, f, g, kind, step, op1, r1, op2, r2>>

sa_vars == <<sa_m, sa_d, sa_done, sa_out>>

vars == <<monad_vars, comonad_vars, law_vars, sa_vars>>

(* ------------------------------ monad() ------------------------------- *)

Min(a, b) == IF a < b THEN a ELSE b

\* The u16 values rng.random_range(u16::MIN..=u16::MAX) is taken to return,
\* the two on either side of the overflow threshold first.
RandPool == <<U16_MAX - Delta, U16_MAX - Delta + 1, U16_MAX, 0, 5>>

Rand == {RandPool[i] : i \in 1..Min(NumRand, Len(RandPool))}

monad_init ==
    /\ pc_monad = "collect"
    /\ vec = <<>>
    /\ val = None
    /\ out_monad = <<>>

\* let vec: Vec<_> = (0..=9).map(|_| rng.random_range(..)).collect();
monad_collect ==
    /\ pc_monad = "collect"
    /\ vec' \in [1..VecLen -> Rand]
    /\ pc_monad' = "get"
    /\ UNCHANGED <<val, out_monad>>

\* let val = vec.get(4).and_then(|val| (*val).checked_add(586));
monad_get ==
    /\ pc_monad = "get"
    /\ val' = safe_add(Get(vec, Index), Delta)
    /\ pc_monad' = "print"
    /\ UNCHANGED <<vec, out_monad>>

\* println!("{val:?}");
monad_print ==
    /\ pc_monad = "print"
    /\ out_monad' = <<val>>
    /\ pc_monad' = "done"
    /\ UNCHANGED <<vec, val>>

(* ----------------------------- comonad() ------------------------------ *)

\* The closures of comonad() as function values over the numbers and the
\* containers of numbers.
AddOneFn == [x \in Nat |-> add_one(x)]

AddOnePureFn == [inp \in [value : Nat, env : Nat] |-> add_one_pure(inp)]

comonad_init ==
    /\ pc_comonad = "new"
    /\ comonad = CoMonad(0, 0)
    /\ added_one = CoMonad(0, 0)
    /\ res_0 = 0
    /\ res_1 = 0
    /\ out_comonad = <<>>

\* let comonad = CoMonad { value: 14., env: unsafe { HEIGHT } };
comonad_new ==
    /\ pc_comonad = "new"
    /\ comonad' = CoMonad(Radius, HEIGHT)
    /\ pc_comonad' = "fmap"
    /\ UNCHANGED <<added_one, res_0, res_1, out_comonad>>

\* let added_one = comonad.fmap(add_one);
comonad_fmap ==
    /\ pc_comonad = "fmap"
    /\ added_one' = CoMonad_fmap(comonad, AddOneFn)
    /\ pc_comonad' = "res_0"
    /\ UNCHANGED <<comonad, res_0, res_1, out_comonad>>

\* let res_0 = add_one_pure(comonad.extend(add_one_pure));
comonad_res_0 ==
    /\ pc_comonad = "res_0"
    /\ res_0' = add_one_pure(CoMonad_extend(comonad, AddOnePureFn))
    /\ pc_comonad' = "res_1"
    /\ UNCHANGED <<comonad, added_one, res_1, out_comonad>>

\* let res_1 = add_one_pure(extend(&add_one_pure)(comonad));
comonad_res_1 ==
    /\ pc_comonad = "res_1"
    /\ res_1' = add_one_pure(extend(AddOnePureFn, comonad))
    /\ pc_comonad' = "print"
    /\ UNCHANGED <<comonad, added_one, res_0, out_comonad>>

\* println!("{res_0} == {res_1}");
comonad_print ==
    /\ pc_comonad = "print"
    /\ out_comonad' = <<res_0, res_1>>
    /\ pc_comonad' = "done"
    /\ UNCHANGED <<comonad, added_one, res_0, res_1>>

(* ---------------------------- law harness ----------------------------- *)
(* One container c and two closures f, g are drawn; an operation is       *)
(* applied to c (giving r1), and then possibly a second one to r1 (giving *)
(* r2), each in its free-function form or its method form.                *)

Vals == 0..MaxVal

Envs == 0..MaxEnv

Containers == [value : Vals, env : Envs]

\* Closures T -> O on plain values: every function on Vals.
PlainFuncs == [Vals -> Vals]

\* Closures CoMonad<T, V> -> O: the functions d |-> a*value + b*env + k
\* (mod the number of values); they read or ignore either field.
ContFuncs ==
    {[d \in Containers |-> (a * d.value + b * d.env + k) % (MaxVal + 1)] :
        a \in Vals, b \in Vals, k \in Vals}

\* |x| x
IdFn == [x \in Vals |-> x]

\* |d| extract(&d)
ExtractFn == [d \in Containers |-> extract(d)]

FreeOps == {"extract", "fmap", "duplicate", "extend"}

MethodOps == {"CoMonad::extract", "CoMonad::fmap", "CoMonad::duplicate", "CoMonad::extend"}

law_init ==
    /\ c \in Containers
    /\ \/ kind = "plain" /\ f \in PlainFuncs /\ g \in PlainFuncs
       \/ kind = "cont" /\ f \in ContFuncs /\ g \in ContFuncs
    /\ step = 0
    /\ op1 = "none"
    /\ r1 = 0
    /\ op2 = "none"
    /\ r2 = 0

\* The first operation, on c.
First(name, result) ==
    /\ step = 0
    /\ op1' = name
    /\ r1' = result
    /\ step' = 1
    /\ UNCHANGED <<c, f, g, kind, op2, r2>>

\* The second operation, on the container the first one returned.
Then(name, result) ==
    /\ step = 1
    /\ op2' = name
    /\ r2' = result
    /\ step' = 2
    /\ UNCHANGED <<c, f, g, kind, op1, r1>>

law_extract == First("extract", extract(c))

law_fmap == kind = "plain" /\ First("fmap", fmap(f, c))

law_duplicate == First("duplicate", duplicate(c))

law_extend == kind = "cont" /\ First("extend", extend(f, c))

law_CoMonad_extract == First("CoMonad::extract", CoMonad_extract(c))

law_CoMonad_fmap == kind = "plain" /\ First("CoMonad::fmap", CoMonad_fmap(c, f))

law_CoMonad_duplicate == First("CoMonad::duplicate", CoMonad_duplicate(c))

law_CoMonad_extend == kind = "cont" /\ First("CoMonad::extend", CoMonad_extend(c, f))

law_then_extract ==
    /\ op1 \in {"fmap", "extend"}
    /\ Then("extract", extract(r1))

law_then_fmap ==
    /\ op1 = "fmap"
    /\ Then("fmap", fmap(g, r1))

law_then_extend ==
    /\ op1 = "extend"
    /\ Then("extend", extend(g, r1))

law_then_CoMonad_extract ==
    /\ op1 \in {"CoMonad::fmap", "CoMonad::extend"}
    /\ Then("CoMonad::extract", CoMonad_extract(r1))

law_then_CoMonad_fmap ==
    /\ op1 = "CoMonad::fmap"
    /\ Then("CoMonad::fmap", CoMonad_fmap(r1, g))

law_then_CoMonad_extend ==
    /\ op1 = "CoMonad::extend"
    /\ Then("CoMonad::extend", CoMonad_extend(r1, g))

(* -------------------------- safe-add harness -------------------------- *)

\* u16 values next to both ends of the range and next to the overflow
\* threshold of + 586.
AddSamples ==
    (0..Edge) \cup ((U16_MAX - Edge)..U16_MAX)
        \cup {5, Delta, U16_MAX - Delta, U16_MAX - Delta + 1}

sa_init ==
    /\ sa_m \in {None} \cup {Some(v) : v \in AddSamples}
    /\ sa_d \in AddSamples
    /\ sa_done = FALSE
    /\ sa_out = None

sa_call ==
    /\ ~sa_done
    /\ sa_out' = safe_add(sa_m, sa_d)
    /\ sa_done' = TRUE
    /\ UNCHANGED <<sa_m, sa_d>>

(* --------------------------- specifications --------------------------- *)

monad_off == pc_monad = "off" /\ vec = <<>> /\ val = None /\ out_monad = <<>>

comonad_off ==
    /\ pc_comonad = "off"
    /\ comonad = CoMonad(0, 0)
    /\ added_one = CoMonad(0, 0)
    /\ res_0 = 0
    /\ res_1 = 0
    /\ out_comonad = <<>>

law_off ==
    /\ c = CoMonad(0, 0)
    /\ f = <<>>
    /\ g = <<>>
    /\ kind = "off"
    /\ step = 0
    /\ op1 = "none"
    /\ r1 = 0
    /\ op2 = "none"
    /\ r2 = 0

sa_off == sa_m = None /\ sa_d = 0 /\ sa_done = TRUE /\ sa_out = None

\* The test harness: test_monad and test_comonad, each on its own thread.
Init == monad_init /\ comonad_init /\ law_off /\ sa_off

Next ==
    \/ monad_collect /\ UNCHANGED <<comonad_vars, law_vars, sa_vars>>
    \/ monad_get /\ UNCHANGED <<comonad_vars, law_vars, sa_vars>>
    \/ monad_print /\ UNCHANGED <<comonad_vars, law_vars, sa_vars>>
    \/ comonad_new /\ UNCHANGED <<monad_vars, law_vars, sa_vars>>
    \/ comonad_fmap /\ UNCHANGED <<monad_vars, law_vars, sa_vars>>
    \/ comonad_res_0 /\ UNCHANGED <<monad_vars, law_vars, sa_vars>>
    \/ comonad_res_1 /\ UNCHANGED <<monad_vars, law_vars, sa_vars>>
    \/ comonad_print /\ UNCHANGED <<monad_vars, law_vars, sa_vars>>

Spec == Init /\ [][Next]_vars

\* The container operations on drawn inputs.
LawInit == law_init /\ monad_off /\ comonad_off /\ sa_off

LawNext ==
    \/ law_extract /\ UNCHANGED <<monad_vars, comonad_vars, sa_vars>>
    \/ law_fmap /\ UNCHANGED <<monad_vars, comonad_vars, sa_vars>>
    \/ law_duplicate /\ UNCHANGED <<monad_vars, comonad_vars, sa_vars>>
    \/ law_extend /\ UNCHANGED <<monad_vars, comonad_vars, sa_vars>>
    \/ law_CoMonad_extract /\ UNCHANGED <<monad_vars, comonad_vars, sa_vars>>
    \/ law_CoMonad_fmap /\ UNCHANGED <<monad_vars, comonad_vars, sa_vars>>
    \/ law_CoMonad_duplicate /\ UNCHANGED <<monad_vars, comonad_vars, sa_vars>>
    \/ law_CoMonad_extend /\ UNCHANGED <<monad_vars, comonad_vars, sa_vars>>
    \/ law_then_extract /\ UNCHANGED <<monad_vars, comonad_vars, sa_vars>>
    \/ law_then_fmap /\ UNCHANGED <<monad_vars, comonad_vars, sa_vars>>
    \/ law_then_extend /\ UNCHANGED <<monad_vars, comonad_vars, sa_vars>>
    \/ law_then_CoMonad_extract /\ UNCHANGED <<monad_vars, comonad_vars, sa_vars>>
    \/ law_then_CoMonad_fmap /\ UNCHANGED <<monad_vars, comonad_vars, sa_vars>>
    \/ law_then_CoMonad_extend /\ UNCHANGED <<monad_vars, comonad_vars, sa_vars>>

SpecLaws == LawInit /\ [][LawNext]_vars

\* fmap, extract and duplicate on drawn inputs with closures on plain values.
FunctorInit == LawInit /\ kind = "plain"

FunctorNext ==
    \/ law_extract /\ UNCHANGED <<monad_vars, comonad_vars, sa_vars>>
    \/ law_fmap /\ UNCHANGED <<monad_vars, comonad_vars, sa_vars>>
    \/ law_duplicate /\ UNCHANGED <<monad_vars, comonad_vars, sa_vars>>
    \/ law_CoMonad_extract /\ UNCHANGED <<monad_vars, comonad_vars, sa_vars>>
    \/ law_CoMonad_fmap /\ UNCHANGED <<monad_vars, comonad_vars, sa_vars>>
    \/ law_CoMonad_duplicate /\ UNCHANGED <<monad_vars, comonad_vars, sa_vars>>
    \/ law_then_extract /\ UNCHANGED <<monad_vars, comonad_vars, sa_vars>>
    \/ law_then_fmap /\ UNCHANGED <<monad_vars, comonad_vars, sa_vars>>
    \/ law_then_CoMonad_extract /\ UNCHANGED <<monad_vars, comonad_vars, sa_vars>>
    \/ law_then_CoMonad_fmap /\ UNCHANGED <<monad_vars, comonad_vars, sa_vars>>

SpecFunctor == FunctorInit /\ [][FunctorNext]_vars

\* The Option pipeline on drawn inputs.
SafeAddInit == sa_init /\ monad_off /\ comonad_off /\ law_off

SafeAddNext == sa_call /\ UNCHANGED <<monad_vars, comonad_vars, law_vars>>

SpecSafeAdd == SafeAddInit /\ [][SafeAddNext]_vars

(* ------------------------------- claims ------------------------------- *)

\* C1 (SpecLaws): comonad left identity.  Extracting the container that
\* extend returned for c and f gives f(c), for the free functions
\* extract(&extend(&f)(c)) and for the methods c.extend(f).extract().
C1_LeftIdentity ==
    /\ (step = 2 /\ op1 = "extend" /\ op2 = "extract") => r2 = f[c]
    /\ (step = 2 /\ op1 = "CoMonad::extend" /\ op2 = "CoMonad::extract") => r2 = f[c]

\* extract after extend has run on a container whose fields differ, with a
\* closure that changed the value.
C1_Witness ==
    /\ step = 2 /\ op1 = "extend" /\ op2 = "extract"
    /\ c.value # c.env
    /\ r2 # c.value

\* C2 (SpecLaws): comonad right identity.  extend with the closure extract
\* returns a container with the value and the env of c.
C2_RightIdentity ==
    (step >= 1 /\ op1 \in {"extend", "CoMonad::extend"} /\ f = ExtractFn)
        => (r1.value = c.value /\ r1.env = c.env)

C2_Witness ==
    /\ step = 1 /\ op1 = "CoMonad::extend" /\ f = ExtractFn
    /\ c.value # c.env

\* C3 (SpecLaws): comonad associativity.  extend with g of the container
\* extend returned for c and f equals, in value and in env, extend of c with
\* the closure d |-> g(extend(d, f)).
C3_Associativity ==
    /\ (step = 2 /\ op1 = "extend" /\ op2 = "extend") =>
           LET h == [d \in Containers |-> g[extend(f, d)]]
           IN  r2.value = extend(h, c).value /\ r2.env = extend(h, c).env
    /\ (step = 2 /\ op1 = "CoMonad::extend" /\ op2 = "CoMonad::extend") =>
           LET h == [d \in Containers |-> g[CoMonad_extend(d, f)]]
           IN  r2.value = CoMonad_extend(c, h).value /\ r2.env = CoMonad_extend(c, h).env

\* Two extends in a row, each changing the value, on a container whose
\* fields differ.
C3_Witness ==
    /\ step = 2 /\ op1 = "extend" /\ op2 = "extend"
    /\ c.value # c.env
    /\ r1.value # c.value
    /\ r2.value # r1.value

\* C4 (SpecSafeAdd): safe_add on u16.  The result is absent for an absent
\* input, absent when value + delta exceeds 65535 (never the wrapped sum),
\* and the present exact sum otherwise; in particular 65535 + 1 is absent
\* and 5 + 586 is Some(591).
C4_SafeAdd ==
    sa_done =>
        /\ sa_m = None => sa_out = None
        /\ (sa_m # None /\ sa_m.val + sa_d > U16_MAX) =>
               /\ sa_out = None
               /\ sa_out # Some((sa_m.val + sa_d) % (U16_MAX + 1))
        /\ (sa_m # None /\ sa_m.val + sa_d <= U16_MAX) => sa_out = Some(sa_m.val + sa_d)
        /\ (sa_m = Some(U16_MAX) /\ sa_d = 1) => sa_out = None
        /\ (sa_m = Some(5) /\ sa_d = 586) => sa_out = Some(591)
        /\ sa_out = None \/ (sa_out.tag = "Some" /\ sa_out.val \in U16)

\* The overflowing call safe_add(Some(u16::MAX), 1) has returned.
C4_Witness == sa_done /\ sa_m = Some(U16_MAX) /\ sa_d = 1 /\ sa_out = None

\* C5 as stated (Spec): in comonad(), the mapped value is 15 and both
\* results the driver computes and prints equal that mapped value.
C5_Original ==
    pc_comonad = "done" =>
        /\ added_one.value = 15
        /\ res_0 = added_one.value
        /\ res_1 = added_one.value
        /\ out_comonad = <<added_one.value, added_one.value>>

\* C5 as amended (Spec): in comonad(), the mapped value is 15, and
\* extracting the extended container gives that same 15; the driver applies
\* add_one_pure to the extended container instead of extracting it, so each
\* of the two results it computes and prints is 16, one more than the mapped
\* value, and the two agree with each other.
C5_Driver ==
    pc_comonad = "done" =>
        /\ comonad = CoMonad(14, 15)
        /\ added_one.value = 15
        /\ extract(extend(AddOnePureFn, comonad)) = added_one.value
        /\ CoMonad_extract(CoMonad_extend(comonad, AddOnePureFn)) = added_one.value
        /\ res_0 = add_one(added_one.value)
        /\ res_1 = add_one(added_one.value)
        /\ res_0 = res_1
        /\ out_comonad = <<16, 16>>

C5_Witness == pc_comonad = "done" /\ out_comonad = <<res_0, res_1>> /\ res_0 = 16

\* C6 (SpecFunctor): functor composition.  fmap with g of the container
\* fmap returned for c and f equals, in value and in env, fmap of c with
\* x |-> g(f(x)).
C6_FunctorComposition ==
    LET gf == [x \in Vals |-> g[f[x]]]
    IN  /\ (step = 2 /\ op1 = "fmap" /\ op2 = "fmap") =>
               r2.value = fmap(gf, c).value /\ r2.env = fmap(gf, c).env
        /\ (step = 2 /\ op1 = "CoMonad::fmap" /\ op2 = "CoMonad::fmap") =>
               r2.value = CoMonad_fmap(c, gf).value /\ r2.env = CoMonad_fmap(c, gf).env

\* Two fmaps in a row, each changing the value, on a container whose fields
\* differ.
C6_Witness ==
    /\ step = 2 /\ op1 = "fmap" /\ op2 = "fmap"
    /\ c.value # c.env
    /\ r1.value # c.value
    /\ r2.value # r1.value

\* C7 (SpecFunctor): functor identity.  fmap with the identity closure
\* returns a container with the value and the env of c.
C7_FunctorIdentity ==
    (step >= 1 /\ op1 \in {"fmap", "CoMonad::fmap"} /\ f = IdFn)
        => (r1.value = c.value /\ r1.env = c.env)

C7_Witness ==
    /\ step = 1 /\ op1 = "CoMonad::fmap" /\ f = IdFn
    /\ c.value # c.env

\* C8 (Spec): monad().  The lookup at index 4 of the 10 generated elements
\* is present, so the result is None exactly when element 4 plus 586
\* exceeds 65535 and Some(element 4 + 586) otherwise; that result is what
\* is printed, and the driver can always take its next step until it is
\* done.
C8_MonadDriver ==
    /\ pc_monad \in {"get", "print", "done"} =>
           /\ Len(vec) = VecLen
           /\ Get(vec, Index) = Some(vec[Index + 1])
    /\ pc_monad \in {"print", "done"} =>
           /\ val = None <=> vec[Index + 1] + Delta > U16_MAX
           /\ val # None => val = Some(vec[Index + 1] + Delta)
    /\ pc_monad = "done" => out_monad = <<val>>
    /\ pc_monad # "done" => ENABLED (monad_collect \/ monad_get \/ monad_print)

\* The driver has finished on a vector whose element 4 overflows while its
\* neighbour does not.
C8_Witness ==
    /\ pc_monad = "done"
    /\ out_monad = <<None>>
    /\ vec[Index + 2] + Delta <= U16_MAX

\* C9, state part: the env of what fmap, extend and duplicate return is the
\* env of their input, and duplicate's value is the whole input.
C9_EnvOfResults ==
    /\ (step >= 1 /\ op1 \in {"fmap", "CoMonad::fmap", "extend", "CoMonad::extend"})
           => r1.env = c.env
    /\ (step >= 1 /\ op1 \in {"duplicate", "CoMonad::duplicate"}) =>
           /\ r1.env = c.env
           /\ r1.value = c
           /\ r1.value.value = c.value
           /\ r1.value.env = c.env
    /\ (step = 2 /\ op2 \in {"fmap", "CoMonad::fmap", "extend", "CoMonad::extend"})
           => r2.env = r1.env /\ r2.env = c.env

\* C9 (SpecLaws): environment preservation.  fmap, extend and duplicate
\* return a container with the env of their input, duplicate's value is the
\* whole input container, and no operation changes the input container.
C9_EnvPreserved == [](C9_EnvOfResults) /\ [][c' = c /\ (step = 1 => r1' = r1)]_vars

\* duplicate has run on a container whose fields differ.
C9_Witness ==
    /\ step = 1 /\ op1 = "CoMonad::duplicate"
    /\ c.value # c.env

\* C10 (SpecLaws): the free functions and the methods agree.  Whatever one
\* form of extract, fmap, duplicate or extend returned for c (and f), the
\* other form returns the same, value and env; and applying f to the two
\* extended containers, as comonad() does for res_0 and res_1, gives equal
\* results.
C10_FormsAgree ==
    /\ (step >= 1 /\ op1 = "extract") => r1 = CoMonad_extract(c)
    /\ (step >= 1 /\ op1 = "CoMonad::extract") => r1 = extract(c)
    /\ (step >= 1 /\ op1 = "fmap") => r1 = CoMonad_fmap(c, f)
    /\ (step >= 1 /\ op1 = "CoMonad::fmap") => r1 = fmap(f, c)
    /\ (step >= 1 /\ op1 = "duplicate") => r1 = CoMonad_duplicate(c)
    /\ (step >= 1 /\ op1 = "CoMonad::duplicate") => r1 = duplicate(c)
    /\ (step >= 1 /\ op1 = "extend") =>
           r1 = CoMonad_extend(c, f) /\ f[r1] = f[CoMonad_extend(c, f)]
    /\ (step >= 1 /\ op1 = "CoMonad::extend") =>
           r1 = extend(f, c) /\ f[r1] = f[extend(f, c)]

\* The free extend has run with a closure that changed the value, on a
\* container whose fields differ.
C10_Witness ==
    /\ step = 1 /\ op1 = "extend"
    /\ c.value # c.env
    /\ r1.value # c.value

====
